---- MODULE Spec2Model ----
(***************************************************************************)
(* Waku mini chat SDK: the ChatClient of src/src/sdk/crypto.ts (lines      *)
(* 97-547) together with the crypto helpers it uses (lines 1-95), as a     *)
(* state machine over a small set of clients that share one transport.     *)
(*                                                                         *)
(* A client's synchronous code runs to completion; the only suspension     *)
(* points are the awaits on the transport (filter.subscribe and            *)
(* lightPush.send under withTimeout).  Each action below is one such       *)
(* synchronous stretch.                                                    *)
(***************************************************************************)
EXTENDS Integers, Sequences, FiniteSets, TLC

\* ------------------------------------------------------------------ bounds
\* sendMessage and revokeMessage calls that reach the store, over all clients
MaxCalls == 2
\* transport subscribe attempts over all clients
MaxAttempts == 2
\* how often one event (same type, same message id) may be emitted by a client
MaxEmits == 2
\* leaveConversation calls over all clients
MaxLeaves == 1
\* payloads on the transport that no client published
MaxForged == 1

Clients == {"alice", "bob"}
Convs == {"d", "g"}
\* the plaintexts each caller passes to sendMessage
Texts == [alice |-> {"hello bob"}, bob |-> {"hi alice"}]
\* Date.now() values, in ms
Times == {1000}

\* ------------------------------------------------------- small utilities
EmptyMap == [x \in {} |-> 0]
Put(f, k, v) == [x \in (DOMAIN f) \cup {k} |-> IF x = k THEN v ELSE f[x]]
Has(f, k) == k \in DOMAIN f
\* a missing optional field (undefined in the source) and the empty string:
\* both are falsy there, and no id, key, nonce or ciphertext equals either
Absent == <<>>

\* ------------------------------------------------------------ crypto.ts
\* Buffer base64 encoding and decoding of a byte string
toBase64(data) == <<"b64", data>>
fromBase64(data) == data[2]

\* key material of createIdentity: the private keys are random, so each
\* client's are its own; a public key is determined by its private key
ed25519PrivateKey(c) == <<"ed25519-sk", c>>
ed25519GetPublicKey(sk) == <<"ed25519-pk", sk[2]>>
x25519PrivateKey(c) == <<"x25519-sk", c>>
x25519GetPublicKey(sk) == <<"x25519-pk", sk[2]>>

createIdentity(c) ==
    [id |-> toBase64(ed25519GetPublicKey(ed25519PrivateKey(c))),
     ed25519PrivateKey |-> ed25519PrivateKey(c),
     ed25519PublicKey |-> ed25519GetPublicKey(ed25519PrivateKey(c)),
     x25519PrivateKey |-> x25519PrivateKey(c),
     x25519PublicKey |-> x25519GetPublicKey(x25519PrivateKey(c))]

identity(c) == createIdentity(c)
Id(c) == identity(c).id

\* ed25519 over the canonical serialisation: a signature names the private
\* key that made it and the payload it covers; records carry no field
\* order, which is what stableStringify's key sorting achieves
signPayload(payload, privateKey) ==
    toBase64([by |-> privateKey[2], over |-> payload])
verifyPayload(payload, signatureBase64, publicKey) ==
    LET signature == fromBase64(signatureBase64)
    IN  /\ signature.by = publicKey[2]
        /\ signature.over = payload

\* x25519 shared secret: the same for (a's private, b's public) and
\* (b's private, a's public)
x25519GetSharedSecret(localPrivateKey, remotePublicKey) ==
    {localPrivateKey[2], remotePublicKey[2]}

\* a direct key derived from the local private key alone: each side its own
deriveDirectKeyOneSided(conversationId, localPrivateKey, remotePublicKey) ==
    <<"hkdf", <<"direct:", conversationId>>, "waku-chat", {localPrivateKey[2]}>>

\* hkdf over the shared secret, salted, with the conversation id as info
deriveDirectKey(conversationId, localPrivateKey, remotePublicKey) ==
    <<"hkdf", <<"direct:", conversationId>>, "waku-chat",
      x25519GetSharedSecret(localPrivateKey, remotePublicKey)>>
deriveGroupKey(conversationId, sharedKey) ==
    <<"hkdf", <<"group:", conversationId>>, "waku-chat", sharedKey>>

\* xchacha20poly1305: the ciphertext opens only under the key and nonce
\* that sealed it
encryptPayload(plaintext, key, nonce) ==
    [nonce |-> toBase64(nonce),
     ciphertext |-> toBase64([key |-> key, nonce |-> nonce, text |-> plaintext])]
\* decryption returns the text, or throws when the tag does not verify
decryptPayload(ciphertextBase64, nonceBase64, key) ==
    LET nonce == fromBase64(nonceBase64)
        ciphertext == fromBase64(ciphertextBase64)
    IN  IF ciphertext.key = key /\ ciphertext.nonce = nonce
        THEN [threw |-> FALSE, text |-> ciphertext.text]
        ELSE [threw |-> TRUE, text |-> ""]

\* sha256 of the pipe-joined parts: one id per list of parts
canonicalId(parts) == toBase64(<<"sha256", parts>>)

\* ------------------------------------------------------- configurations
Participant(c) ==
    [id |-> Id(c),
     ed25519PublicKey |-> identity(c).ed25519PublicKey,
     x25519PublicKey |-> identity(c).x25519PublicKey]

\* the conversation configs the callers pass to joinConversation: a direct
\* conversation of alice and bob, and a group whose admins are both (a config
\* without adminIds has the empty admin list, as adminIds ?? [] reads it)
DirectConfig ==
    [id |-> "d", type |-> "direct",
     participants |-> <<Participant("alice"), Participant("bob")>>,
     sharedKeyBase64 |-> Absent, adminIds |-> {}]
GroupConfig ==
    [id |-> "g", type |-> "group",
     participants |-> <<Participant("alice"), Participant("bob")>>,
     sharedKeyBase64 |-> toBase64("group-key"),
     adminIds |-> {Id("alice"), Id("bob")}]
Configs == {DirectConfig, GroupConfig}
NoConfig == [id |-> Absent]

\* ----------------------------------------------------------------- state
VARIABLES
    waku,                  \* [client -> BOOLEAN]: this.waku is set (init succeeded)
    conversations,         \* [client -> [conv -> config or NoConfig]]
    handlers,              \* [client -> set of convs with a registered handler]
    messages,              \* [client -> map message id -> ChatMessage]
    subscribed,            \* [client -> set of convs]
    subscriptionPromises,  \* [client -> [conv -> attempt number, 0 for no entry]]
    pendingTombstones,     \* [client -> map target id -> Tombstone]
    events,                \* [client -> events passed to emit, and heard by the handler]
    attempts,              \* transport subscribe calls in flight
    callbacks,             \* [client -> [conv -> number of callbacks the transport holds]]
    net,                   \* payloads the transport has accepted, by content topic
    pubs,                  \* the publish calls made: outcome, send promise and timer
    ncalls,                \* [client -> [conv -> sends and revokes that reached the store]]
    nattempts,             \* [client -> [conv -> transport subscribe calls so far]]
    nleaves,               \* leaveConversation calls so far
    log                    \* [client -> the tombstone envelopes handleDecodedMessage
                           \*  was called with and those revokeMessage built]

vars == <<waku, conversations, handlers, messages, subscribed, subscriptionPromises,
          pendingTombstones, events, attempts, callbacks, net, pubs,
          ncalls, nattempts, nleaves, log>>

NoEvents == [message |-> EmptyMap, tombstone |-> EmptyMap]
\* what settled the race in withTimeout: nothing yet (or the call threw
\* before it reached the transport), the send promise resolving with a number
\* of successes, the send promise rejecting, or the timer
NoReport == [settled |-> "none", successes |-> 0]

Init ==
    /\ waku = [c \in Clients |-> FALSE]
    /\ conversations = [c \in Clients |-> [k \in Convs |-> NoConfig]]
    /\ handlers = [c \in Clients |-> {}]
    /\ messages = [c \in Clients |-> EmptyMap]
    /\ subscribed = [c \in Clients |-> {}]
    /\ subscriptionPromises = [c \in Clients |-> [k \in Convs |-> 0]]
    /\ pendingTombstones = [c \in Clients |-> EmptyMap]
    /\ events = [c \in Clients |-> NoEvents]
    /\ attempts = {}
    /\ callbacks = [c \in Clients |-> [k \in Convs |-> 0]]
    /\ net = {}
    /\ pubs = {}
    /\ ncalls = [c \in Clients |-> [k \in Convs |-> 0]]
    /\ nattempts = [c \in Clients |-> [k \in Convs |-> 0]]
    /\ nleaves = 0
    /\ log = [c \in Clients |-> {}]

\* the sum of a counter over all clients and conversations
RECURSIVE SumOver(_, _)
SumOver(f, S) ==
    IF S = {} THEN 0
    ELSE LET x == CHOOSE y \in S : TRUE IN f[x[1]][x[2]] + SumOver(f, S \ {x})
Total(f) == SumOver(f, Clients \X Convs)

\* the part of one client's state that the store operations read and write
Local(c) ==
    [self |-> c,
     conversations |-> conversations[c],
     handlers |-> handlers[c],
     messages |-> messages[c],
     pendingTombstones |-> pendingTombstones[c],
     events |-> events[c]]

\* ------------------------------------------------- ChatClient, store side
\* this.conversations.get(conversationId); NoConfig is where the source throws
getConversation(st, conversationId) == st.conversations[conversationId]

\* canRevoke with the admin test widened to every participant
canRevokeAsParticipant(conversation, issuerId, originalSenderId) ==
    \/ issuerId = originalSenderId
    \/ \E i \in DOMAIN conversation.participants :
           conversation.participants[i].id = issuerId

canRevoke(conversation, issuerId, originalSenderId) ==
    \/ issuerId = originalSenderId
    \/ issuerId \in conversation.adminIds

\* the conversation key, or threw: a group without a shared key, a direct
\* conversation without a participant other than the client itself
deriveConversationKey(conversation, self) ==
    IF conversation.type = "group"
    THEN IF conversation.sharedKeyBase64 = Absent
         THEN [threw |-> TRUE, key |-> Absent]
         ELSE [threw |-> FALSE,
               key |-> deriveGroupKey(conversation.id,
                                      fromBase64(conversation.sharedKeyBase64))]
    ELSE LET others == SelectSeq(conversation.participants,
                                 LAMBDA p : p.id # Id(self))
         IN  IF others = <<>>
             THEN [threw |-> TRUE, key |-> Absent]
             ELSE [threw |-> FALSE,
                   key |-> deriveDirectKey(conversation.id,
                                           identity(self).x25519PrivateKey,
                                           others[1].x25519PublicKey)]

\* emit: every handler registered for the conversation is called with the
\* event.  The log counts, per event, the calls of emit and the calls of the
\* handler, and keeps the text a message event carried.
NoCount == [emitted |-> 0, heard |-> 0, text |-> ""]
CountOf(counts, id) == IF Has(counts, id) THEN counts[id] ELSE NoCount
emit(st, conversationId, type, id, text) ==
    LET old == CountOf(st.events[type], id)
        new == [emitted |-> old.emitted + 1,
                heard |-> old.heard + (IF conversationId \in st.handlers THEN 1 ELSE 0),
                text |-> text]
    IN  [st EXCEPT !.events[type] = Put(@, id, new)]

\* applyTombstone flipping the flag instead of setting it
applyTombstoneFlips(st, conversationId, tombstone) ==
    LET target == tombstone.targetMessageId
        marked == IF Has(st.messages, target)
                  THEN [st EXCEPT !.messages[target].revoked = ~@]
                  ELSE [st EXCEPT !.pendingTombstones = Put(@, target, tombstone)]
    IN  emit(marked, conversationId, "tombstone", target, "")

applyTombstone(st, conversationId, tombstone) ==
    LET target == tombstone.targetMessageId
        marked == IF Has(st.messages, target)
                  THEN [st EXCEPT !.messages[target].revoked = TRUE]
                  ELSE [st EXCEPT !.pendingTombstones = Put(@, target, tombstone)]
    IN  emit(marked, conversationId, "tombstone", target, "")

\* the signable projection of a wire message
signaturePayload(message) ==
    IF message.type = "tombstone"
    THEN [v |-> message.v, type |-> message.type,
          conversationId |-> message.conversationId,
          messageId |-> message.messageId,
          senderId |-> message.senderId,
          senderEd25519 |-> message.senderEd25519,
          senderX25519 |-> message.senderX25519,
          timestamp |-> message.timestamp,
          targetMessageId |-> message.targetMessageId]
    ELSE [v |-> message.v, type |-> message.type,
          conversationId |-> message.conversationId,
          messageId |-> message.messageId,
          senderId |-> message.senderId,
          senderEd25519 |-> message.senderEd25519,
          senderX25519 |-> message.senderX25519,
          timestamp |-> message.timestamp,
          nonce |-> message.nonce,
          ciphertext |-> message.ciphertext]

\* the tombstone branch without the lookup of the target's sender: every
\* tombstone is judged as one for a message not yet stored
handleTombstoneUnknownSender(st, conversationId, parsed) ==
    IF parsed.targetMessageId = Absent
    THEN [st |-> st, threw |-> FALSE]
    ELSE LET tombstone == [targetMessageId |-> parsed.targetMessageId,
                           issuerId |-> parsed.senderId,
                           timestamp |-> parsed.timestamp]
             conversation == getConversation(st, conversationId)
         IN  IF conversation = NoConfig
             THEN [st |-> st, threw |-> TRUE]
             ELSE IF canRevoke(conversation, tombstone.issuerId, Absent)
                  THEN [st |-> applyTombstone(st, conversationId, tombstone),
                        threw |-> FALSE]
                  ELSE [st |-> st, threw |-> FALSE]

\* the tombstone branch of handleDecodedMessage (lines 431-445)
handleTombstone(st, conversationId, parsed) ==
    IF parsed.targetMessageId = Absent
    THEN [st |-> st, threw |-> FALSE]
    ELSE LET tombstone == [targetMessageId |-> parsed.targetMessageId,
                           issuerId |-> parsed.senderId,
                           timestamp |-> parsed.timestamp]
             conversation == getConversation(st, conversationId)
             originalSenderId ==
                 IF Has(st.messages, tombstone.targetMessageId)
                 THEN st.messages[tombstone.targetMessageId].senderId
                 ELSE Absent
         IN  IF conversation = NoConfig
             THEN [st |-> st, threw |-> TRUE]
             ELSE IF canRevoke(conversation, tombstone.issuerId, originalSenderId)
                  THEN [st |-> applyTombstone(st, conversationId, tombstone),
                        threw |-> FALSE]
                  ELSE [st |-> st, threw |-> FALSE]

\* the chat branch without the messages.has(id) test: an id already stored
\* is stored and emitted again
handleChatAgain(st, conversationId, parsed) ==
    IF parsed.ciphertext = Absent \/ parsed.nonce = Absent
    THEN [st |-> st, threw |-> FALSE]
    ELSE LET conversation == getConversation(st, conversationId)
             derived == IF conversation = NoConfig
                        THEN [threw |-> TRUE, key |-> Absent]
                        ELSE deriveConversationKey(conversation, st.self)
             opened == decryptPayload(parsed.ciphertext, parsed.nonce, derived.key)
             chatMessage == [id |-> parsed.messageId,
                             conversationId |-> conversationId,
                             senderId |-> parsed.senderId,
                             text |-> opened.text,
                             timestamp |-> parsed.timestamp,
                             revoked |-> Has(st.pendingTombstones, parsed.messageId),
                             deleted |-> FALSE]
         IN  IF derived.threw
             THEN [st |-> st, threw |-> TRUE]
             ELSE IF opened.threw
                  THEN [st |-> st, threw |-> FALSE]
                  ELSE [st |-> emit([st EXCEPT !.messages =
                                              Put(@, chatMessage.id, chatMessage)],
                                    conversationId, "message",
                                    chatMessage.id, chatMessage.text),
                        threw |-> FALSE]

\* the chat branch of handleDecodedMessage (lines 446-472)
handleChat(st, conversationId, parsed) ==
    IF parsed.ciphertext = Absent \/ parsed.nonce = Absent
    THEN [st |-> st, threw |-> FALSE]
    ELSE LET conversation == getConversation(st, conversationId)
             derived == IF conversation = NoConfig
                        THEN [threw |-> TRUE, key |-> Absent]
                        ELSE deriveConversationKey(conversation, st.self)
             opened == decryptPayload(parsed.ciphertext, parsed.nonce, derived.key)
             chatMessage == [id |-> parsed.messageId,
                             conversationId |-> conversationId,
                             senderId |-> parsed.senderId,
                             text |-> opened.text,
                             timestamp |-> parsed.timestamp,
                             revoked |-> Has(st.pendingTombstones, parsed.messageId),
                             deleted |-> FALSE]
         IN  IF derived.threw
             THEN [st |-> st, threw |-> TRUE]
             ELSE IF opened.threw \/ Has(st.messages, chatMessage.id)
                  THEN [st |-> st, threw |-> FALSE]
                  ELSE [st |-> emit([st EXCEPT !.messages =
                                              Put(@, chatMessage.id, chatMessage)],
                                    conversationId, "message",
                                    chatMessage.id, chatMessage.text),
                        threw |-> FALSE]

\* handleDecodedMessage without the signature check
handleDecodedMessageUnverified(st, conversationId, parsed) ==
    IF parsed.conversationId # conversationId
    THEN [st |-> st, threw |-> FALSE]
    ELSE IF parsed.type = "tombstone"
         THEN handleTombstone(st, conversationId, parsed)
         ELSE handleChat(st, conversationId, parsed)

\* handleDecodedMessage(conversationId, message) for a payload that parses:
\* the client state it leaves, and whether it threw
handleDecodedMessage(st, conversationId, parsed) ==
    IF parsed.conversationId # conversationId
    THEN [st |-> st, threw |-> FALSE]
    ELSE IF ~verifyPayload(signaturePayload(parsed), parsed.signature,
                           fromBase64(parsed.senderEd25519))
         THEN [st |-> st, threw |-> FALSE]
         ELSE IF parsed.type = "tombstone"
              THEN handleTombstone(st, conversationId, parsed)
              ELSE handleChat(st, conversationId, parsed)

\* handleDecodedMessage from its first line (416-421): no payload, nothing
\* happens; bytes that are no JSON text make JSON.parse throw
parses(payload) == payload[1] = "json"
handlePayload(st, conversationId, payload) ==
    IF payload = Absent
    THEN [st |-> st, threw |-> FALSE]
    ELSE IF ~parses(payload)
         THEN [st |-> st, threw |-> TRUE]
         ELSE handleDecodedMessage(st, conversationId, payload[2])

\* ------------------------------------------------------ wire and transport
\* contentTopicPrefix keeps its default in every client
contentTopicFor(conversationId) == <<"/waku-chat/1", conversationId, "json">>
\* textEncoder.encode(JSON.stringify(envelope)) and its inverse on receipt
jsonEncode(envelope) == <<"json", envelope>>
jsonParse(payload) == payload[2]

\* the chat envelope sendMessage builds and signs (lines 255-269)
chatEnvelope(self, conversationId, sealed, timestamp) ==
    LET envelopeBase ==
            [v |-> 1, type |-> "chat",
             conversationId |-> conversationId,
             messageId |-> canonicalId(<<conversationId, Id(self), sealed.nonce,
                                         sealed.ciphertext, timestamp>>),
             senderId |-> Id(self),
             senderEd25519 |-> toBase64(identity(self).ed25519PublicKey),
             senderX25519 |-> toBase64(identity(self).x25519PublicKey),
             timestamp |-> timestamp,
             nonce |-> sealed.nonce,
             ciphertext |-> sealed.ciphertext]
        signature == signPayload(envelopeBase, identity(self).ed25519PrivateKey)
    IN  [v |-> 1, type |-> "chat",
         conversationId |-> conversationId,
         messageId |-> envelopeBase.messageId,
         senderId |-> Id(self),
         senderEd25519 |-> envelopeBase.senderEd25519,
         senderX25519 |-> envelopeBase.senderX25519,
         timestamp |-> timestamp,
         nonce |-> sealed.nonce,
         ciphertext |-> sealed.ciphertext,
         targetMessageId |-> Absent,
         signature |-> signature]

\* the tombstone envelope revokeMessage builds and signs (lines 295-308)
tombstoneEnvelope(self, conversationId, targetMessageId, timestamp) ==
    LET envelopeBase ==
            [v |-> 1, type |-> "tombstone",
             conversationId |-> conversationId,
             messageId |-> canonicalId(<<conversationId, targetMessageId,
                                         Id(self), timestamp>>),
             senderId |-> Id(self),
             senderEd25519 |-> toBase64(identity(self).ed25519PublicKey),
             senderX25519 |-> toBase64(identity(self).x25519PublicKey),
             timestamp |-> timestamp,
             targetMessageId |-> targetMessageId]
        signature == signPayload(envelopeBase, identity(self).ed25519PrivateKey)
    IN  [v |-> 1, type |-> "tombstone",
         conversationId |-> conversationId,
         messageId |-> envelopeBase.messageId,
         senderId |-> Id(self),
         senderEd25519 |-> envelopeBase.senderEd25519,
         senderX25519 |-> envelopeBase.senderX25519,
         timestamp |-> timestamp,
         nonce |-> Absent,
         ciphertext |-> Absent,
         targetMessageId |-> targetMessageId,
         signature |-> signature]

\* withTimeout: the race of the wrapped promise and the timer.  `report` says
\* which settled first; the result is the promise's value or the error thrown
withTimeout(report) ==
    IF report.settled = "timer"
    THEN [threw |-> TRUE, error |-> "Timeout", successes |-> 0]
    ELSE IF report.settled = "rejected"
         THEN [threw |-> TRUE, error |-> "send error", successes |-> 0]
         ELSE [threw |-> FALSE, error |-> "", successes |-> report.successes]

\* publish without the test of result.successes
publishAnyResult(report) ==
    LET result == withTimeout(report)
    IN  IF result.threw THEN result.error ELSE "ok"

\* publish after the await (lines 357-360): "ok", or the error it throws
publish(report) ==
    LET result == withTimeout(report)
    IN  IF result.threw
        THEN result.error
        ELSE IF result.successes = 0 THEN "LightPush send failed" ELSE "ok"

\* ids a caller may pass: every id some client stores or has buffered
KnownIds ==
    UNION {(DOMAIN messages[c]) \cup (DOMAIN pendingTombstones[c]) : c \in Clients}

\* an entry of the log: the operation, the conversation it was called for and
\* the envelope it handled or built
Logged(op, conversationId, envelope) ==
    [op |-> op, conversationId |-> conversationId, envelope |-> envelope]

\* the store fields of client c become those of st
Store(c, st) ==
    /\ messages' = [messages EXCEPT ![c] = st.messages]
    /\ pendingTombstones' = [pendingTombstones EXCEPT ![c] = st.pendingTombstones]
    /\ events' = [events EXCEPT ![c] = st.events]

\* no event is emitted more than MaxEmits times
EmitsBounded(st) ==
    \A type \in {"message", "tombstone"} :
        \A id \in DOMAIN st.events[type] : st.events[type][id].emitted <= MaxEmits

\* ------------------------------------------------------ lifecycle actions
\* init() with peers found in time: this.waku = node
init(c) ==
    /\ ~waku[c]
    /\ waku' = [waku EXCEPT ![c] = TRUE]
    /\ UNCHANGED <<conversations, handlers, messages, subscribed, subscriptionPromises,
                   pendingTombstones, events, attempts, callbacks, net, pubs,
                   ncalls, nattempts, nleaves, log>>

joinConversation(c, config) ==
    /\ conversations' = [conversations EXCEPT ![c][config.id] = config]
    /\ UNCHANGED <<waku, handlers, messages, subscribed, subscriptionPromises,
                   pendingTombstones, events, attempts, callbacks, net, pubs,
                   ncalls, nattempts, nleaves, log>>

\* leaveConversation that keeps the conversation's config
leaveConversationKeepsConfig(c, conversationId) ==
    /\ nleaves < MaxLeaves
    /\ nleaves' = nleaves + 1
    /\ handlers' = [handlers EXCEPT ![c] = @ \ {conversationId}]
    /\ subscribed' = [subscribed EXCEPT ![c] = @ \ {conversationId}]
    /\ subscriptionPromises' = [subscriptionPromises EXCEPT ![c][conversationId] = 0]
    /\ UNCHANGED <<waku, conversations, messages, pendingTombstones, events, attempts,
                   callbacks, net, pubs, ncalls, nattempts, log>>

leaveConversation(c, conversationId) ==
    /\ nleaves < MaxLeaves
    /\ nleaves' = nleaves + 1
    /\ conversations' = [conversations EXCEPT ![c][conversationId] = NoConfig]
    /\ handlers' = [handlers EXCEPT ![c] = @ \ {conversationId}]
    /\ subscribed' = [subscribed EXCEPT ![c] = @ \ {conversationId}]
    /\ subscriptionPromises' = [subscriptionPromises EXCEPT ![c][conversationId] = 0]
    /\ UNCHANGED <<waku, messages, pendingTombstones, events, attempts, callbacks,
                   net, pubs, ncalls, nattempts, log>>

\* ensureSubscribed without the look at the subscribed set
ensureSubscribedPromiseOnly(c, conversationId) ==
    IF subscriptionPromises[c][conversationId] # 0
    THEN UNCHANGED <<subscriptionPromises, attempts, nattempts>>
    ELSE IF ~waku[c]
         THEN UNCHANGED <<subscriptionPromises, attempts, nattempts>>
         ELSE /\ Total(nattempts) < MaxAttempts
              /\ nattempts' = [nattempts EXCEPT ![c][conversationId] = @ + 1]
              /\ attempts' = attempts \cup
                     {[client |-> c, conversationId |-> conversationId,
                       n |-> nattempts[c][conversationId] + 1]}
              /\ subscriptionPromises' =
                     [subscriptionPromises EXCEPT ![c][conversationId] =
                                                     nattempts[c][conversationId] + 1]

\* ensureSubscribed up to its await.  Already subscribed, or an entry in
\* subscriptionPromises: nothing is started.  Otherwise subscribeInternal
\* runs: without a node it throws, and the catch handler deletes the entry
\* that was just set; with a node, filter.subscribe is called and the entry
\* names this attempt.
ensureSubscribed(c, conversationId) ==
    IF conversationId \in subscribed[c] \/ subscriptionPromises[c][conversationId] # 0
    THEN UNCHANGED <<subscriptionPromises, attempts, nattempts>>
    ELSE IF ~waku[c]
         THEN UNCHANGED <<subscriptionPromises, attempts, nattempts>>
         ELSE /\ Total(nattempts) < MaxAttempts
              /\ nattempts' = [nattempts EXCEPT ![c][conversationId] = @ + 1]
              /\ attempts' = attempts \cup
                     {[client |-> c, conversationId |-> conversationId,
                       n |-> nattempts[c][conversationId] + 1]}
              /\ subscriptionPromises' =
                     [subscriptionPromises EXCEPT ![c][conversationId] =
                                                     nattempts[c][conversationId] + 1]

subscribe(c, conversationId) ==
    /\ handlers' = [handlers EXCEPT ![c] = @ \cup {conversationId}]
    /\ ensureSubscribed(c, conversationId)
    /\ UNCHANGED <<waku, conversations, messages, subscribed, pendingTombstones,
                   events, callbacks, net, pubs, ncalls, nleaves, log>>

\* the function subscribe returned: the handler leaves the set
unsubscribe(c, conversationId) ==
    /\ conversationId \in handlers[c]
    /\ handlers' = [handlers EXCEPT ![c] = @ \ {conversationId}]
    /\ UNCHANGED <<waku, conversations, messages, subscribed, subscriptionPromises,
                   pendingTombstones, events, attempts, callbacks, net, pubs,
                   ncalls, nattempts, nleaves, log>>

waitForSubscription(c, conversationId) ==
    /\ ensureSubscribed(c, conversationId)
    /\ UNCHANGED <<waku, conversations, handlers, messages, subscribed,
                   pendingTombstones, events, callbacks, net, pubs, ncalls, nleaves, log>>

\* filter.subscribe returned true: the transport holds the callback, and
\* subscribeInternal adds the conversation to subscribed
subscribeSucceeds(a) ==
    /\ subscribed' = [subscribed EXCEPT ![a.client] = @ \cup {a.conversationId}]
    /\ callbacks' = [callbacks EXCEPT ![a.client][a.conversationId] = @ + 1]
    /\ attempts' = attempts \ {a}
    /\ UNCHANGED <<waku, conversations, handlers, messages, subscriptionPromises,
                   pendingTombstones, events, net, pubs, ncalls, nattempts, nleaves, log>>

\* filter.subscribe returned false or threw: subscribeInternal throws, and the
\* catch handler of ensureSubscribed deletes the conversation's entry
subscribeFails(a) ==
    /\ subscriptionPromises' =
           [subscriptionPromises EXCEPT ![a.client][a.conversationId] = 0]
    /\ attempts' = attempts \ {a}
    /\ UNCHANGED <<waku, conversations, handlers, messages, subscribed,
                   pendingTombstones, events, callbacks, net, pubs, ncalls,
                   nattempts, nleaves, log>>

\* ------------------------------------------------------ messaging actions
\* listMessages leaving out the revoked messages as well
listMessagesUnrevoked(st, conversationId) ==
    {st.messages[id] : id \in {i \in DOMAIN st.messages :
                                  /\ st.messages[i].conversationId = conversationId
                                  /\ ~st.messages[i].deleted
                                  /\ ~st.messages[i].revoked}}

\* listMessages(conversationId): the elements of the array it returns
listMessages(st, conversationId) ==
    {st.messages[id] : id \in {i \in DOMAIN st.messages :
                                  /\ st.messages[i].conversationId = conversationId
                                  /\ ~st.messages[i].deleted}}

\* deleteMessage marking the message revoked as well
deleteMessageRevokes(c, messageId) ==
    /\ messages' = [messages EXCEPT ![c] =
                       IF Has(@, messageId)
                       THEN [@ EXCEPT ![messageId].deleted = TRUE,
                                      ![messageId].revoked = TRUE]
                       ELSE @]
    /\ UNCHANGED <<waku, conversations, handlers, subscribed, subscriptionPromises,
                   pendingTombstones, events, attempts, callbacks, net, pubs,
                   ncalls, nattempts, nleaves, log>>

\* deleteMessage flipping the flag instead of setting it
deleteMessageFlips(c, messageId) ==
    /\ messages' = [messages EXCEPT ![c] =
                       IF Has(@, messageId)
                       THEN [@ EXCEPT ![messageId].deleted = ~@]
                       ELSE @]
    /\ UNCHANGED <<waku, conversations, handlers, subscribed, subscriptionPromises,
                   pendingTombstones, events, attempts, callbacks, net, pubs,
                   ncalls, nattempts, nleaves, log>>

deleteMessage(c, messageId) ==
    /\ messages' = [messages EXCEPT ![c] =
                       IF Has(@, messageId)
                       THEN [@ EXCEPT ![messageId].deleted = TRUE]
                       ELSE @]
    /\ UNCHANGED <<waku, conversations, handlers, subscribed, subscriptionPromises,
                   pendingTombstones, events, attempts, callbacks, net, pubs,
                   ncalls, nattempts, nleaves, log>>

\* a publish call: what it returned or threw ("pending" until then), whether
\* the send promise is still unsettled, what settled the race, and the timer
Pub(n, c, op, conversationId, id, envelope) ==
    [n |-> n, client |-> c, op |-> op, conversationId |-> conversationId,
     id |-> id, envelope |-> envelope, outcome |-> "pending", inflight |-> TRUE,
     report |-> NoReport, timer |-> "armed"]

\* the synchronous part of publish (lines 349-356): without a node it throws,
\* with one lightPush.send is called and the timer is armed
publishStarts(c, op, conversationId, id, envelope) ==
    LET p == Pub(ncalls[c][conversationId] + 1, c, op, conversationId, id, envelope)
    IN  pubs' = pubs \cup
            {IF waku[c]
             THEN p
             ELSE [p EXCEPT !.outcome = "Client not initialized",
                            !.inflight = FALSE, !.timer = "none"]}

\* the 24 random bytes encryptPayload draws: no two calls draw the same
freshNonce(c, conversationId) ==
    <<"nonce", c, conversationId, ncalls[c][conversationId] + 1>>

\* sendMessageError without the look at the key
sendMessageErrorKeyUnchecked(st, conversationId) ==
    IF getConversation(st, conversationId) = NoConfig
    THEN "Conversation not found"
    ELSE ""

\* what sendMessage throws before it touches the store, "" if nothing
sendMessageError(st, conversationId) ==
    LET conversation == getConversation(st, conversationId)
    IN  IF conversation = NoConfig THEN "Conversation not found"
        ELSE IF deriveConversationKey(conversation, st.self).threw
             THEN "No conversation key"
             ELSE ""

\* sendMessage publishing before it stores: nothing is stored or emitted
\* until the publish has returned
sendMessagePublishesFirst(c, conversationId, plaintext, timestamp) ==
    LET st == Local(c)
        conversation == getConversation(st, conversationId)
        derived == deriveConversationKey(conversation, c)
        sealed == encryptPayload(plaintext, derived.key,
                                 freshNonce(c, conversationId))
        envelope == chatEnvelope(c, conversationId, sealed, timestamp)
    IN  IF sendMessageError(st, conversationId) # ""
        THEN UNCHANGED <<messages, pendingTombstones, events, pubs, ncalls>>
        ELSE /\ Total(ncalls) < MaxCalls
             /\ ncalls' = [ncalls EXCEPT ![c][conversationId] = @ + 1]
             /\ UNCHANGED <<messages, pendingTombstones, events>>
             /\ publishStarts(c, "sendMessage", conversationId,
                              envelope.messageId, envelope)

\* sendMessage storing the message and publishing it without the emit
sendMessageSilent(c, conversationId, plaintext, timestamp) ==
    LET st == Local(c)
        conversation == getConversation(st, conversationId)
        derived == deriveConversationKey(conversation, c)
        sealed == encryptPayload(plaintext, derived.key,
                                 freshNonce(c, conversationId))
        envelope == chatEnvelope(c, conversationId, sealed, timestamp)
        message == [id |-> envelope.messageId,
                    conversationId |-> conversationId,
                    senderId |-> Id(c),
                    text |-> plaintext,
                    timestamp |-> timestamp,
                    revoked |-> FALSE,
                    deleted |-> FALSE]
    IN  IF sendMessageError(st, conversationId) # ""
        THEN UNCHANGED <<messages, pendingTombstones, events, pubs, ncalls>>
        ELSE /\ Total(ncalls) < MaxCalls
             /\ ncalls' = [ncalls EXCEPT ![c][conversationId] = @ + 1]
             /\ Store(c, [st EXCEPT !.messages = Put(@, message.id, message)])
             /\ publishStarts(c, "sendMessage", conversationId, message.id, envelope)

\* sendMessage up to its await
sendMessage(c, conversationId, plaintext, timestamp) ==
    LET st == Local(c)
        conversation == getConversation(st, conversationId)
        derived == deriveConversationKey(conversation, c)
        sealed == encryptPayload(plaintext, derived.key,
                                 freshNonce(c, conversationId))
        envelope == chatEnvelope(c, conversationId, sealed, timestamp)
        message == [id |-> envelope.messageId,
                    conversationId |-> conversationId,
                    senderId |-> Id(c),
                    text |-> plaintext,
                    timestamp |-> timestamp,
                    revoked |-> FALSE,
                    deleted |-> FALSE]
        stored == emit([st EXCEPT !.messages = Put(@, message.id, message)],
                       conversationId, "message", message.id, message.text)
    IN  IF sendMessageError(st, conversationId) # ""
        THEN UNCHANGED <<messages, pendingTombstones, events, pubs, ncalls>>
        ELSE /\ Total(ncalls) < MaxCalls
             /\ ncalls' = [ncalls EXCEPT ![c][conversationId] = @ + 1]
             /\ Store(c, stored)
             /\ publishStarts(c, "sendMessage", conversationId, message.id, envelope)

sendMessageCall(c, conversationId, plaintext, timestamp) ==
    /\ sendMessage(c, conversationId, plaintext, timestamp)
    /\ UNCHANGED <<waku, conversations, handlers, subscribed, subscriptionPromises,
                   attempts, callbacks, net, nattempts, nleaves, log>>

\* what revokeMessage throws before it touches the store, "" if nothing
revokeMessageError(st, conversationId, targetMessageId) ==
    LET conversation == getConversation(st, conversationId)
    IN  IF conversation = NoConfig THEN "Conversation not found"
        ELSE IF ~Has(st.messages, targetMessageId) THEN "Message not found"
        ELSE IF ~canRevoke(conversation, Id(st.self),
                           st.messages[targetMessageId].senderId)
             THEN "Not authorized to revoke"
             ELSE ""

\* revokeMessage up to its await
revokeMessage(c, conversationId, targetMessageId, timestamp) ==
    LET st == Local(c)
        envelope == tombstoneEnvelope(c, conversationId, targetMessageId, timestamp)
        applied == applyTombstone(st, conversationId,
                                  [targetMessageId |-> targetMessageId,
                                   issuerId |-> Id(c),
                                   timestamp |-> timestamp])
    IN  IF revokeMessageError(st, conversationId, targetMessageId) # ""
        THEN UNCHANGED <<messages, pendingTombstones, events, pubs, ncalls, log>>
        ELSE /\ Total(ncalls) < MaxCalls
             /\ EmitsBounded(applied)
             /\ ncalls' = [ncalls EXCEPT ![c][conversationId] = @ + 1]
             /\ Store(c, applied)
             /\ log' = [log EXCEPT ![c] = @ \cup
                           {Logged("revokeMessage", conversationId, envelope)}]
             /\ publishStarts(c, "revokeMessage", conversationId,
                              targetMessageId, envelope)

revokeMessageCall(c, conversationId, targetMessageId, timestamp) ==
    /\ revokeMessage(c, conversationId, targetMessageId, timestamp)
    /\ UNCHANGED <<waku, conversations, handlers, subscribed, subscriptionPromises,
                   attempts, callbacks, net, nattempts, nleaves>>

\* what lightPush.send can report
SendReports ==
    {[settled |-> "resolved", successes |-> 0],
     [settled |-> "resolved", successes |-> 1],
     [settled |-> "rejected", successes |-> 0]}
TimerReport == [settled |-> "timer", successes |-> 0]

\* the send promise settling in a withTimeout that has no finally block: the
\* timer is left as it was
lightPushSettlesTimerKept(p, report) ==
    /\ p.inflight
    /\ net' = IF report.settled = "resolved" /\ report.successes > 0
              THEN net \cup {[contentTopic |-> contentTopicFor(p.conversationId),
                              payload |-> jsonEncode(p.envelope)]}
              ELSE net
    /\ pubs' = (pubs \ {p}) \cup
           {IF p.outcome = "pending"
            THEN [p EXCEPT !.inflight = FALSE, !.outcome = publish(report),
                           !.report = report]
            ELSE [p EXCEPT !.inflight = FALSE]}
    /\ UNCHANGED <<waku, conversations, handlers, messages, subscribed,
                   subscriptionPromises, pendingTombstones, events, attempts,
                   callbacks, ncalls, nattempts, nleaves, log>>

\* the send promise settles.  With a success a peer took the payload.  If the
\* timer has not fired, the race is decided, the timer is cleared and publish
\* returns or throws; if it has, the caller already got the timeout.
lightPushSettles(p, report) ==
    /\ p.inflight
    /\ net' = IF report.settled = "resolved" /\ report.successes > 0
              THEN net \cup {[contentTopic |-> contentTopicFor(p.conversationId),
                              payload |-> jsonEncode(p.envelope)]}
              ELSE net
    /\ pubs' = (pubs \ {p}) \cup
           {IF p.outcome = "pending"
            THEN [p EXCEPT !.inflight = FALSE, !.outcome = publish(report),
                           !.report = report, !.timer = "cleared"]
            ELSE [p EXCEPT !.inflight = FALSE]}
    /\ UNCHANGED <<waku, conversations, handlers, messages, subscribed,
                   subscriptionPromises, pendingTombstones, events, attempts,
                   callbacks, ncalls, nattempts, nleaves, log>>

\* the timer of withTimeout fires before the send promise settles
timerFires(p) ==
    /\ p.outcome = "pending"
    /\ p.timer = "armed"
    /\ pubs' = (pubs \ {p}) \cup
           {[p EXCEPT !.outcome = publish(TimerReport), !.report = TimerReport,
                      !.timer = "fired"]}
    /\ UNCHANGED <<waku, conversations, handlers, messages, subscribed,
                   subscriptionPromises, pendingTombstones, events, attempts,
                   callbacks, net, ncalls, nattempts, nleaves, log>>

\* the transport calls a callback the client registered for the conversation
\* with a payload published on its content topic; a payload may come in any
\* order and any number of times
deliver(c, conversationId, m) ==
    LET handled == handlePayload(Local(c), conversationId, m.payload)
    IN  /\ callbacks[c][conversationId] > 0
        /\ m.contentTopic = contentTopicFor(conversationId)
        /\ EmitsBounded(handled.st)
        /\ Store(c, handled.st)
        /\ log' = IF m.payload # Absent /\ parses(m.payload)
                         /\ jsonParse(m.payload).type = "tombstone"
                  THEN [log EXCEPT ![c] = @ \cup
                           {Logged("handleDecodedMessage", conversationId,
                                   jsonParse(m.payload))}]
                  ELSE log
        /\ UNCHANGED <<waku, conversations, handlers, subscribed, subscriptionPromises,
                       attempts, callbacks, net, pubs, ncalls, nattempts, nleaves>>

\* ensureSubscribed would call filter.subscribe: a node, the conversation
\* not subscribed, no entry in subscriptionPromises
startsSubscribe(c, conversationId) ==
    /\ waku[c]
    /\ conversationId \notin subscribed[c]
    /\ subscriptionPromises[c][conversationId] = 0
\* the caller listens to one conversation: a further subscribe is one that
\* starts no transport subscribe
ListensOnce(c, conversationId) ==
    startsSubscribe(c, conversationId) => Total(nattempts) = 0

\* ---------------------------------------------------------- specification
\* alice is the client under observation: she listens, sends, revokes,
\* deletes and leaves.  bob is her peer: he sends and revokes, and holds
\* only what he sent.
Observed == {"alice"}
Delivered == [settled |-> "resolved", successes |-> 1]

\* The store under a working transport.  Each caller awaits init() before
\* anything else, as the tests and the demo do; either client joins either
\* conversation; every send reaches a peer.
Next ==
    \/ \E c \in Clients : init(c)
    \/ \E c \in Clients, config \in Configs : waku[c] /\ joinConversation(c, config)
    \/ \E c \in Observed, k \in Convs : waku[c] /\ leaveConversation(c, k)
    \/ \E c \in Observed, k \in Convs :
           waku[c] /\ ListensOnce(c, k) /\ subscribe(c, k)
    \/ \E a \in attempts : subscribeSucceeds(a)
    \/ \E c \in Observed, id \in KnownIds : deleteMessage(c, id)
    \/ \E c \in Clients : \E k \in Convs, t \in Texts[c], ts \in Times :
           waku[c] /\ sendMessageCall(c, k, t, ts)
    \/ \E c \in Clients, k \in Convs, id \in KnownIds, ts \in Times :
           waku[c] /\ revokeMessageCall(c, k, id, ts)
    \/ \E p \in pubs : lightPushSettles(p, Delivered)
    \/ \E c \in Clients, k \in Convs, m \in net : deliver(c, k, m)

Spec == Init /\ [][Next]_vars

\* The sender under an unreliable transport: alice alone, calling in any
\* order, before init() as well as after it; a send may reach no peer, be
\* rejected, or outlast the timer, and what was sent comes back to her.
SendNext ==
    \/ init("alice")
    \/ \E config \in Configs : joinConversation("alice", config)
    \/ \E k \in Convs : ListensOnce("alice", k) /\ subscribe("alice", k)
    \/ \E a \in attempts : subscribeSucceeds(a)
    \/ \E id \in KnownIds : deleteMessage("alice", id)
    \/ \E k \in Convs, t \in Texts["alice"], ts \in Times :
           sendMessageCall("alice", k, t, ts)
    \/ \E k \in Convs, id \in KnownIds, ts \in Times :
           revokeMessageCall("alice", k, id, ts)
    \/ \E p \in pubs, report \in SendReports : lightPushSettles(p, report)
    \/ \E p \in pubs : timerFires(p)
    \/ \E k \in Convs, m \in net : deliver("alice", k, m)

SendSpec == Init /\ [][SendNext]_vars

\* ---------------------------------------------------------- hostile peers
\* a group config that carries no shared key
KeylessGroupConfig == [GroupConfig EXCEPT !.sharedKeyBase64 = Absent]
PeerConfigs == Configs \cup {KeylessGroupConfig}

\* what the clients' publish calls put, or will put, on the transport, and
\* what is on it from elsewhere
Published ==
    {[contentTopic |-> contentTopicFor(p.conversationId),
      payload |-> jsonEncode(p.envelope)] : p \in pubs}
Forged == net \ Published

\* a wire message with the fields its author chose, signed with the signing
\* key the author holds
craft(signer, fields) ==
    [fields EXCEPT !.signature =
         signPayload(signaturePayload(fields), identity(signer).ed25519PrivateKey)]

\* bytes that are no JSON text
Malformed == <<"bytes", "{">>
\* a signed envelope with one signable field changed after signing
Altered(envelope) == [envelope EXCEPT !.timestamp = @ + 1]
\* a key of the conversation's kind made by one who knows neither the shared
\* key nor a participant's private key
OutsiderKey(conversationId) ==
    IF conversationId = GroupConfig.id
    THEN deriveGroupKey(conversationId, "guess")
    ELSE deriveDirectKey(conversationId, identity("mallory").x25519PrivateKey,
                         identity("alice").x25519PublicKey)
\* the conversation's key as bob, who has its config, derives it
InsiderKey(conversationId) ==
    deriveConversationKey(IF conversationId = GroupConfig.id
                          THEN GroupConfig ELSE DirectConfig, "bob").key
\* the message id sendMessage computes for a chat envelope (line 254)
computeMessageId(conversationId, senderId, nonce, ciphertext, timestamp) ==
    canonicalId(<<conversationId, senderId, nonce, ciphertext, timestamp>>)
\* a chat envelope: author, claimed sender, key and timestamp as the author
\* likes, and as messageId either chosenId or, with none, the computed id
craftedChat(signer, claimed, conversationId, chosenId, key, timestamp) ==
    LET sealed == encryptPayload("forged", key, <<"nonce", signer, conversationId, 0>>)
    IN  craft(signer,
              [v |-> 1, type |-> "chat",
               conversationId |-> conversationId,
               messageId |-> IF chosenId = Absent
                             THEN computeMessageId(conversationId, Id(claimed),
                                                   sealed.nonce, sealed.ciphertext,
                                                   timestamp)
                             ELSE chosenId,
               senderId |-> Id(claimed),
               senderEd25519 |-> toBase64(identity(signer).ed25519PublicKey),
               senderX25519 |-> toBase64(identity(signer).x25519PublicKey),
               timestamp |-> timestamp,
               nonce |-> sealed.nonce,
               ciphertext |-> sealed.ciphertext,
               targetMessageId |-> Absent,
               signature |-> Absent])
\* a tombstone envelope under a claimed sender id
craftedTombstone(signer, claimed, conversationId, targetMessageId, timestamp) ==
    craft(signer,
          [v |-> 1, type |-> "tombstone",
           conversationId |-> conversationId,
           messageId |-> canonicalId(<<conversationId, targetMessageId,
                                       Id(claimed), timestamp>>),
           senderId |-> Id(claimed),
           senderEd25519 |-> toBase64(identity(signer).ed25519PublicKey),
           senderX25519 |-> toBase64(identity(signer).x25519PublicKey),
           timestamp |-> timestamp,
           nonce |-> Absent,
           ciphertext |-> Absent,
           targetMessageId |-> targetMessageId,
           signature |-> Absent])

\* an envelope that is a chat in all but its type, which is neither "chat"
\* nor "tombstone"
craftedOther(signer, conversationId, key, timestamp) ==
    craft(signer,
          [craftedChat(signer, signer, conversationId, Absent, key, timestamp)
               EXCEPT !.type = "note"])
\* the ids of the chat envelopes the clients published on conversationId
PublishedChatIds(conversationId) ==
    {p.envelope.messageId :
         p \in {q \in pubs : q.op = "sendMessage" /\ q.conversationId = conversationId}}
\* what a peer may publish on the conversation's content topic: malformed
\* bytes; a published envelope altered after signing; a chat by an outsider
\* under a key of their own; a tombstone signed by an outsider under bob's
\* sender id; a chat by bob under a message id of his choice; an envelope by
\* bob of a type of his own
ForgedPayloads(conversationId) ==
    {Malformed}
        \cup {jsonEncode(Altered(jsonParse(m.payload))) :
                  m \in {x \in net \cap Published :
                             x.contentTopic = contentTopicFor(conversationId)}}
        \cup {jsonEncode(craftedChat("mallory", "mallory", conversationId, Absent,
                                     OutsiderKey(conversationId), t)) : t \in Times}
        \cup {jsonEncode(craftedTombstone("mallory", "bob", conversationId, id, t)) :
                  id \in PublishedChatIds(conversationId), t \in Times}
        \cup {jsonEncode(craftedChat("bob", "bob", conversationId,
                                     canonicalId(<<"chosen">>),
                                     InsiderKey(conversationId), t)) :
                  t \in Times}
        \cup {jsonEncode(craftedOther("bob", conversationId,
                                      InsiderKey(conversationId), t)) : t \in Times}

\* a peer publishes a payload of its own making on the content topic
inject(conversationId, payload) ==
    LET m == [contentTopic |-> contentTopicFor(conversationId), payload |-> payload]
    IN  /\ Cardinality(Forged) < MaxForged
        /\ m \notin net
        /\ net' = net \cup {m}
        /\ UNCHANGED <<waku, conversations, handlers, messages, subscribed,
                       subscriptionPromises, pendingTombstones, events, attempts,
                       callbacks, pubs, ncalls, nattempts, nleaves, log>>

\* alice listens, bob sends and both revoke, while peers publish payloads of
\* their own on the topics
PeerNext ==
    \/ \E c \in Clients : init(c)
    \/ \E c \in Clients, config \in PeerConfigs : waku[c] /\ joinConversation(c, config)
    \/ \E k \in Convs : waku["alice"] /\ ListensOnce("alice", k) /\ subscribe("alice", k)
    \/ \E a \in attempts : subscribeSucceeds(a)
    \/ \E k \in Convs, t \in Texts["bob"], ts \in Times :
           waku["bob"] /\ sendMessageCall("bob", k, t, ts)
    \/ \E c \in Clients, k \in Convs, id \in KnownIds, ts \in Times :
           waku[c] /\ revokeMessageCall(c, k, id, ts)
    \/ \E p \in pubs : lightPushSettles(p, Delivered)
    \/ \E k \in Convs : \E payload \in ForgedPayloads(k) : inject(k, payload)
    \/ \E k \in Convs, m \in net : deliver("alice", k, m)
PeerSpec == Init /\ [][PeerNext]_vars

\* one client's subscription calls against a transport whose subscribe calls
\* complete or fail at any later time
SubNext ==
    \/ init("alice")
    \/ \E config \in Configs : joinConversation("alice", config)
    \/ \E k \in Convs : subscribe("alice", k)
    \/ \E k \in Convs : unsubscribe("alice", k)
    \/ \E k \in Convs : waitForSubscription("alice", k)
    \/ \E k \in Convs : leaveConversation("alice", k)
    \/ \E a \in attempts : subscribeSucceeds(a)
    \/ \E a \in attempts : subscribeFails(a)
SubSpec == Init /\ [][SubNext]_vars

\* ------------------------------------------------------------- properties
\* the config the callers pass for a conversation id, the client an identity
\* id belongs to, and the wire tombstones and chats a client could be handed
ConfigOf(conversationId) == CHOOSE config \in Configs : config.id = conversationId
ClientOf(id) == CHOOSE c \in Clients : Id(c) = id
ValidlySigned(envelope) ==
    verifyPayload(signaturePayload(envelope), envelope.signature,
                  fromBase64(envelope.senderEd25519))
\* the transport may call client c's callback for conversation k with payload m
Deliverable(c, k, m) ==
    callbacks[c][k] > 0 /\ m.contentTopic = contentTopicFor(k)
Joined(c, k) == conversations[c][k] # NoConfig
\* issuerId is the sender of message m or an admin of m's conversation
MayRevoke(issuerId, m) ==
    issuerId = m.senderId \/ issuerId \in ConfigOf(m.conversationId).adminIds
\* the ids client c stores in the next state and not in this one
NewIds(c) == (DOMAIN messages'[c]) \ (DOMAIN messages[c])
\* client c received, so far, a validly signed tombstone for id from an
\* issuer who may revoke message m
EarlyTombstone(c, id, m) ==
    \E e \in log[c] :
        /\ e.op = "handleDecodedMessage"
        /\ e.envelope.targetMessageId = id
        /\ e.conversationId = m.conversationId
        /\ ValidlySigned(e.envelope)
        /\ MayRevoke(e.envelope.senderId, m)

\* C1: if a client received a validly signed tombstone from the target's
\* sender or from an admin of its conversation before the chat envelope it
\* targets, then the message, once received and stored, has revoked = TRUE.
C1_OutOfOrderRevocation ==
    [][\A c \in Clients : \A id \in NewIds(c) :
           (messages'[c][id].senderId # Id(c) /\ EarlyTombstone(c, id, messages'[c][id]))
               => messages'[c][id].revoked]_vars

\* C2: a stored message is revoked only if its client issued or received a
\* tombstone targeting it whose issuer is the message's sender or an admin of
\* the message's conversation.
C2_RevocationAuthorized ==
    \A c \in Clients : \A id \in DOMAIN messages[c] :
        messages[c][id].revoked =>
            \E e \in log[c] :
                /\ e.envelope.targetMessageId = id
                /\ MayRevoke(e.envelope.senderId, messages[c][id])

\* client c has joined k, stores id, and is neither its sender nor an admin of k
Unauthorized(c, k, id) ==
    /\ Joined(c, k)
    /\ Has(messages[c], id)
    /\ Id(c) # messages[c][id].senderId
    /\ Id(c) \notin conversations[c][k].adminIds

\* C3: revokeMessage by a client that is neither the sender of the target nor
\* an admin of the conversation throws "Not authorized to revoke", and the
\* call changes neither the messages, the pending tombstones, the events
\* emitted, nor the publish calls made and the payloads on the transport.
C3_UnauthorizedRevokeRejected ==
    /\ [](\A c \in Clients, k \in Convs, id \in KnownIds :
              Unauthorized(c, k, id) =>
                  revokeMessageError(Local(c), k, id) = "Not authorized to revoke")
    /\ [][\A c \in Clients, k \in Convs, id \in KnownIds, ts \in Times :
              (Unauthorized(c, k, id) /\ revokeMessageCall(c, k, id, ts)) =>
                  UNCHANGED <<messages, pendingTombstones, events, pubs, net>>]_vars
C3_Witness ==
    \E id \in KnownIds :
        /\ Unauthorized("alice", "d", id)
        /\ ~messages["alice"][id].revoked
        /\ Total(ncalls) = MaxCalls - 1

\* every tombstone a client could be asked to apply: any known target, any
\* issuer, any time
Tombstones ==
    [targetMessageId : KnownIds, issuerId : {Id(c) : c \in Clients}, timestamp : Times]

\* C4: applying a tombstone twice leaves the messages and the pending
\* tombstones as applying it once does, in every store a client can reach.
C4_TombstoneIdempotent ==
    \A c \in Clients, k \in Convs : \A tombstone \in Tombstones :
        LET once == applyTombstone(Local(c), k, tombstone)
            twice == applyTombstone(once, k, tombstone)
        IN  /\ twice.messages = once.messages
            /\ twice.pendingTombstones = once.pendingTombstones
\* the same tombstone was applied twice to a buffered target, and another
\* target is stored and revoked
C4_Witness ==
    \E id \in DOMAIN pendingTombstones["alice"] :
        /\ events["alice"].tombstone[id].emitted = 2
        /\ \E p \in pubs : p.op = "revokeMessage" /\ p.id = id /\ p.client = "bob"

\* the chat envelopes on the transport
ChatsOn(k) ==
    {m \in net : m.contentTopic = contentTopicFor(k) /\ jsonParse(m.payload).type = "chat"}
TombstonesOn(k) ==
    {m \in net : m.contentTopic = contentTopicFor(k)
                    /\ jsonParse(m.payload).type = "tombstone"}

\* C5: no client emits more than one 'message' event for an id, and handing a
\* client a chat envelope whose id it already stores leaves the stored
\* message, flags included, as it is.
C5_DedupById ==
    \A c \in Clients :
        /\ \A id \in DOMAIN events[c].message : events[c].message[id].emitted <= 1
        /\ \A k \in Convs : \A m \in ChatsOn(k) :
               LET parsed == jsonParse(m.payload)
                   after == handleDecodedMessage(Local(c), k, parsed).st
               IN  (Deliverable(c, k, m) /\ Has(messages[c], parsed.messageId)) =>
                       /\ after.messages = messages[c]
                       /\ after.events.message = events[c].message
\* alice's own envelope is on the transport and can come back to her, after
\* she revoked and deleted the message
C5_Witness ==
    \E m \in ChatsOn("g") :
        LET id == jsonParse(m.payload).messageId
        IN  /\ Deliverable("alice", "g", m)
            /\ jsonParse(m.payload).senderId = Id("alice")
            /\ messages["alice"][id].deleted
            /\ events["alice"].message[id].emitted = 1

\* C6: once a stored message is revoked it stays revoked, and once it is
\* deleted it stays deleted, whatever step is taken.
C6_FlagsOneWay ==
    [][\A c \in Clients : \A id \in DOMAIN messages[c] :
           /\ Has(messages'[c], id)
           /\ messages[c][id].revoked => messages'[c][id].revoked
           /\ messages[c][id].deleted => messages'[c][id].deleted]_vars
\* a message revoked and deleted at a client that then left its conversation
C6_Witness ==
    \E id \in DOMAIN messages["alice"] :
        /\ messages["alice"][id].revoked
        /\ messages["alice"][id].deleted
        /\ ~Joined("alice", messages["alice"][id].conversationId)
        /\ nleaves = 1

\* the stored message and the event a delivery of chat envelope m on
\* conversation k leaves at client c, and what the sender stored for it
Received(c, k, m) ==
    LET parsed == jsonParse(m.payload)
        after == handleDecodedMessage(Local(c), k, parsed).st
        sender == ClientOf(parsed.senderId)
    IN  [stored |-> Has(after.messages, parsed.messageId),
         message |-> IF Has(after.messages, parsed.messageId)
                     THEN after.messages[parsed.messageId]
                     ELSE [text |-> "", revoked |-> FALSE, deleted |-> FALSE],
         event |-> CountOf(after.events.message, parsed.messageId),
         first |-> ~Has(messages[c], parsed.messageId),
         buffered |-> Has(pendingTombstones[c], parsed.messageId),
         sent |-> messages[sender][parsed.messageId].text,
         listening |-> k \in handlers[c]]

\* C7 as stated: a participant handed another participant's chat envelope
\* stores it under the sender's id with the sender's text, revoked = FALSE and
\* deleted = FALSE, and its listeners get one 'message' event with that text.
C7_DeliveryNeverRevoked ==
    \A c \in Clients, k \in Convs : \A m \in ChatsOn(k) :
        LET r == Received(c, k, m)
        IN  (Deliverable(c, k, m) /\ Joined(c, k) /\ r.first) =>
                /\ r.stored
                /\ r.message.text = r.sent
                /\ ~r.message.revoked /\ ~r.message.deleted
                /\ r.event.emitted = 1 /\ r.event.text = r.sent
                /\ r.listening => r.event.heard = 1

\* C7: the same, except that the message is stored with revoked = TRUE exactly
\* when a tombstone for its id is buffered in pendingTombstones.
C7_EndToEndDelivery ==
    \A c \in Clients, k \in Convs : \A m \in ChatsOn(k) :
        LET r == Received(c, k, m)
        IN  (Deliverable(c, k, m) /\ Joined(c, k) /\ r.first) =>
                /\ r.stored
                /\ r.message.text = r.sent
                /\ r.message.revoked = r.buffered /\ ~r.message.deleted
                /\ r.event.emitted = 1 /\ r.event.text = r.sent
                /\ r.listening => r.event.heard = 1
\* alice stores what bob sent in the direct conversation, and her listener
\* heard it
C7_Witness ==
    \E id \in DOMAIN messages["alice"] :
        /\ messages["alice"][id].senderId = Id("bob")
        /\ messages["alice"][id].conversationId = "d"
        /\ messages["alice"][id].text = "hi alice"
        /\ ~messages["alice"][id].revoked
        /\ events["alice"].message[id].heard = 1

\* what a delivery of tombstone envelope m on conversation k leaves at client
\* c: whether c holds the target, whether the tombstone is its sender's and c
\* another client, whether the target ends revoked, and the events emitted
Revoked(c, k, m) ==
    LET parsed == jsonParse(m.payload)
        target == parsed.targetMessageId
        after == handleDecodedMessage(Local(c), k, parsed).st
    IN  [holds |-> Has(messages[c], target),
         bySender |-> Has(messages[c], target)
                          /\ messages[c][target].senderId = parsed.senderId
                          /\ parsed.senderId # Id(c),
         revoked |-> Has(after.messages, target) /\ after.messages[target].revoked,
         emitted |-> CountOf(after.events.tombstone, target).emitted
                         - CountOf(events[c].tombstone, target).emitted]
\* whoever applied a tombstone through revokeMessage stores the target revoked
IssuerRevoked ==
    \A c \in Clients : \A e \in log[c] :
        e.op = "revokeMessage" =>
            /\ Has(messages[c], e.envelope.targetMessageId)
            /\ messages[c][e.envelope.targetMessageId].revoked

\* C8 as stated: the author's store has the message revoked, and every client
\* that holds the message and is handed the author's tombstone marks it
\* revoked and emits a 'tombstone' event for it.
C8_EveryHolderRevokes ==
    /\ IssuerRevoked
    /\ \A c \in Clients, k \in Convs : \A m \in TombstonesOn(k) :
           LET r == Revoked(c, k, m)
           IN  (Deliverable(c, k, m) /\ r.bySender) =>
                   r.revoked /\ r.emitted = 1

\* C8: the same for every holder that has not left the conversation the
\* tombstone was published in.
C8_SenderRevocationPropagates ==
    /\ IssuerRevoked
    /\ \A c \in Clients, k \in Convs : \A m \in TombstonesOn(k) :
           LET r == Revoked(c, k, m)
           IN  (Deliverable(c, k, m) /\ Joined(c, k) /\ r.bySender) =>
                   r.revoked /\ r.emitted = 1
\* bob revoked his message, and alice, who held it, heard the tombstone
C8_Witness ==
    \E id \in DOMAIN messages["alice"] :
        /\ messages["alice"][id].senderId = Id("bob")
        /\ messages["alice"][id].revoked
        /\ messages["bob"][id].revoked
        /\ events["alice"].message[id].heard = 1
        /\ Has(events["alice"].tombstone, id)
        /\ events["alice"].tombstone[id].heard = 1
        /\ ~Has(pendingTombstones["alice"], id)

\* the errors publish throws on account of the transport
TransportErrors == {"LightPush send failed", "Timeout", "send error"}
\* publish call p of this state throws a transport error in this step
FailsNow(p) ==
    /\ p.op = "sendMessage"
    /\ p.outcome = "pending"
    /\ \E q \in pubs' :
           /\ q.client = p.client /\ q.conversationId = p.conversationId /\ q.n = p.n
           /\ q.outcome \in TransportErrors

\* C9 as stated: when sendMessage fails on account of the transport, the
\* message is in the sender's store with revoked = FALSE and deleted = FALSE,
\* and its 'message' event was emitted exactly once.
C9_FailedSendLeavesFreshMessage ==
    [][\A p \in pubs :
           FailsNow(p) =>
               /\ Has(messages'[p.client], p.id)
               /\ ~messages'[p.client][p.id].revoked
               /\ ~messages'[p.client][p.id].deleted
               /\ events'[p.client].message[p.id].emitted = 1]_vars

\* C9: sendMessage stores the message with both flags FALSE and emits its
\* event once before it publishes; when the send then fails on account of the
\* transport, the message is still stored, as it was just before the failure
\* (a deleteMessage or a revocation in between shows), and the event has been
\* emitted exactly once.
C9_NoRollback ==
    [][/\ \A p \in pubs' \ pubs :
              (p.op = "sendMessage" /\ ~(\E q \in pubs : q.id = p.id)) =>
                  /\ Has(messages'[p.client], p.id)
                  /\ ~messages'[p.client][p.id].revoked
                  /\ ~messages'[p.client][p.id].deleted
                  /\ events'[p.client].message[p.id].emitted = 1
       /\ \A p \in pubs :
              FailsNow(p) =>
                  /\ Has(messages[p.client], p.id)
                  /\ messages'[p.client] = messages[p.client]
                  /\ events'[p.client].message[p.id].emitted = 1]_vars
\* a send that reached no peer, whose message was deleted while it was in flight
C9_Witness ==
    \E p \in pubs :
        /\ p.op = "sendMessage"
        /\ p.outcome = "LightPush send failed"
        /\ messages[p.client][p.id].deleted
        /\ events[p.client].message[p.id].emitted = 1

\* C10: sendMessage returns the message id only if the send settled before
\* the timer with at least one success; with no success, or with the timer
\* first, it throws.
C10_SendOutcome ==
    \A p \in pubs :
        p.op = "sendMessage" =>
            /\ p.outcome = "ok" =>
                   /\ p.report.settled = "resolved" /\ p.report.successes >= 1
                   /\ p.id = p.envelope.messageId
            /\ (p.report.settled = "timer"
                    \/ (p.report.settled = "resolved" /\ p.report.successes = 0)) =>
                   p.outcome \in TransportErrors
\* one send returned its id, another outlasted the timer and reached a peer
\* all the same
C10_Witness ==
    /\ \E p \in pubs : p.op = "sendMessage" /\ p.outcome = "ok"
    /\ \E p \in pubs :
           /\ p.op = "sendMessage" /\ p.outcome = "Timeout" /\ ~p.inflight
           /\ \E m \in ChatsOn(p.conversationId) :
                  jsonParse(m.payload).messageId = p.id

\* C14: listMessages(k) returns a stored message exactly if its conversationId
\* is k and it is not deleted, and returns nothing that is not stored; a
\* revoked message that was not deleted is returned, with revoked = TRUE; a
\* step that leaves the client's messages alone leaves the result alone.
C14_ListMessages ==
    /\ [](\A c \in Clients, k \in Convs :
              LET listed == listMessages(Local(c), k)
              IN  /\ \A id \in DOMAIN messages[c] :
                         messages[c][id] \in listed <=>
                             /\ messages[c][id].conversationId = k
                             /\ ~messages[c][id].deleted
                  /\ \A m \in listed :
                         Has(messages[c], m.id) /\ messages[c][m.id] = m)
    /\ [][\A c \in Clients, k \in Convs :
              messages'[c] = messages[c] =>
                  listMessages(Local(c), k)' = listMessages(Local(c), k)]_vars
\* a revoked message, not deleted, is listed next to a conversation with none
C14_Witness ==
    \E id \in DOMAIN messages["alice"] :
        /\ messages["alice"][id].revoked
        /\ ~messages["alice"][id].deleted
        /\ messages["alice"][id] \in listMessages(Local("alice"), "d")
        /\ listMessages(Local("alice"), "g") = {}

\* message m with every field but deleted
Content(m) ==
    [id |-> m.id, conversationId |-> m.conversationId, senderId |-> m.senderId,
     text |-> m.text, timestamp |-> m.timestamp, revoked |-> m.revoked]

\* C15: deleteMessage(id) at client c, for a stored id, sets deleted of that
\* message and keeps its other fields, and for an unknown id leaves c's
\* messages alone; either way it keeps the ids stored and every other
\* message, the pending tombstones, the events, the conversations, listeners
\* and subscriptions of c, every other client's store and events, the publish
\* calls made and the payloads on the transport.
C15_DeleteLocalOnly ==
    [][\A c \in Clients, id \in KnownIds :
           deleteMessage(c, id) =>
               /\ DOMAIN messages'[c] = DOMAIN messages[c]
               /\ \A i \in DOMAIN messages[c] :
                      /\ Content(messages'[c][i]) = Content(messages[c][i])
                      /\ messages'[c][i].deleted =
                             (messages[c][i].deleted \/ i = id)
               /\ \A d \in Clients \ {c} : messages'[d] = messages[d]
               /\ UNCHANGED <<pendingTombstones, events, conversations, handlers,
                              subscribed, subscriptionPromises, attempts,
                              callbacks, pubs, net>>]_vars
\* a message deleted at alice, not revoked, that bob still lists, after the
\* one publish call that sent it
C15_Witness ==
    \E id \in DOMAIN messages["alice"] :
        /\ messages["alice"][id].deleted
        /\ ~messages["alice"][id].revoked
        /\ Has(messages["bob"], id)
        /\ ~messages["bob"][id].deleted
        /\ \A p \in pubs : p.op = "sendMessage"
        /\ KnownIds # DOMAIN messages["alice"]

\* C17: a stored message is revoked only if its client issued, or received,
\* a tombstone targeting it on the message's own conversation: revokeMessage
\* called for, or a tombstone envelope handled on, another conversation never
\* marks it, neither at once nor through pendingTombstones.
C17_RevocationConfined ==
    \A c \in Clients : \A id \in DOMAIN messages[c] :
        messages[c][id].revoked =>
            \E e \in log[c] :
                /\ e.envelope.targetMessageId = id
                /\ e.conversationId = messages[c][id].conversationId
                /\ e.envelope.conversationId = messages[c][id].conversationId

\* client c stores message id and has emitted its 'message' event, to the
\* listener of conversation k if there was one
SelfDelivered(c, k, id, listening) ==
    /\ Has(messages[c], id)
    /\ messages[c][id].senderId = Id(c)
    /\ messages[c][id].conversationId = k
    /\ Has(events[c].message, id)
    /\ events[c].message[id].emitted >= 1
    /\ listening => events[c].message[id].heard >= 1

\* C20: the step of sendMessage that invokes the transport publish leaves the
\* message in the sender's store with its 'message' event emitted once, and
\* heard by the listener of the conversation if there is one; so whenever a
\* publish call of sendMessage exists, and whenever a chat envelope is on the
\* transport or in another client's store, the sender has stored the message
\* and emitted its event.
C20_SelfDeliveryFirst ==
    /\ [][\A p \in pubs' \ pubs :
              (p.op = "sendMessage" /\ p.envelope \notin {q.envelope : q \in pubs}) =>
                  /\ SelfDelivered(p.client, p.conversationId, p.id, FALSE)'
                  /\ events'[p.client].message[p.id].emitted = 1
                  /\ events'[p.client].message[p.id].heard =
                         (IF p.conversationId \in handlers[p.client] THEN 1 ELSE 0)
                  /\ p.envelope \notin {jsonParse(m.payload) : m \in net'}]_vars
    /\ [](\A p \in pubs :
              p.op = "sendMessage" =>
                  SelfDelivered(p.client, p.conversationId, p.id, FALSE))
    /\ [](\A m \in net :
              jsonParse(m.payload).type = "chat" =>
                  SelfDelivered(ClientOf(jsonParse(m.payload).senderId),
                                jsonParse(m.payload).conversationId,
                                jsonParse(m.payload).messageId, FALSE))
    /\ [](\A c \in Clients : \A id \in DOMAIN messages[c] :
              messages[c][id].senderId # Id(c) =>
                  SelfDelivered(ClientOf(messages[c][id].senderId),
                                messages[c][id].conversationId, id, FALSE))
\* alice's listener has heard her message while its publish call is pending
\* and nothing is on the transport
C20_Witness ==
    \E p \in pubs :
        /\ p.op = "sendMessage"
        /\ p.client = "alice"
        /\ p.outcome = "pending"
        /\ SelfDelivered("alice", p.conversationId, p.id, TRUE)
        /\ p.conversationId \in handlers["alice"]
        /\ net = {}

\* the filter.subscribe calls of client c for conversation k not yet returned
InFlight(c, k) == {a \in attempts : a.client = c /\ a.conversationId = k}

\* C12: for every client and conversation at most one filter.subscribe call
\* is in flight, and a subscribe or waitForSubscription made while one is in
\* flight starts no other.
C12_OneSubscribeInFlight ==
    /\ [](\A c \in Clients, k \in Convs : Cardinality(InFlight(c, k)) <= 1)
    /\ [][\A c \in Clients, k \in Convs :
              InFlight(c, k) # {} => InFlight(c, k)' \subseteq InFlight(c, k)]_vars

\* client c, joined to k with a usable key, cannot open the chat envelope
Undecryptable(c, k, parsed) ==
    /\ parsed.type = "chat"
    /\ parsed.ciphertext # Absent /\ parsed.nonce # Absent
    /\ Joined(c, k)
    /\ ~deriveConversationKey(conversations[c][k], c).threw
    /\ decryptPayload(parsed.ciphertext, parsed.nonce,
                      deriveConversationKey(conversations[c][k], c).key).threw
\* a payload on k's topic that parses to an envelope for k whose signature
\* does not verify, or whose ciphertext c cannot open
CryptoInvalid(c, k, m) ==
    /\ m.contentTopic = contentTopicFor(k)
    /\ m.payload # Absent /\ parses(m.payload)
    /\ jsonParse(m.payload).conversationId = k
    /\ ~ValidlySigned(jsonParse(m.payload)) \/ Undecryptable(c, k, jsonParse(m.payload))
\* a chat envelope a client published on k that c, joined with the config of
\* k, has not stored yet
FreshChat(c, k, m) ==
    /\ m \in Published
    /\ m.contentTopic = contentTopicFor(k)
    /\ jsonParse(m.payload).type = "chat"
    /\ conversations[c][k] \in Configs
    /\ ~Has(messages[c], jsonParse(m.payload).messageId)

\* C11: handling a payload whose signature does not verify over its signable
\* projection, or whose ciphertext does not open under the conversation key,
\* leaves the client's messages, pending tombstones and events as they were
\* and does not throw; and with such payloads on the transport a published
\* chat envelope is still stored, with its event emitted, when handled.
C11_InvalidDropped ==
    \A c \in Clients, k \in Convs, m \in net :
        /\ CryptoInvalid(c, k, m) =>
               /\ handlePayload(Local(c), k, m.payload).st = Local(c)
               /\ ~handlePayload(Local(c), k, m.payload).threw
        /\ (FreshChat(c, k, m) /\ Forged # {}) =>
               LET after == handlePayload(Local(c), k, m.payload).st
                   id == jsonParse(m.payload).messageId
               IN  /\ Has(after.messages, id)
                   /\ after.messages[id].text \in Texts[ClientOf(after.messages[id].senderId)]
                   /\ after.events.message[id].emitted = 1
\* alice was handed a tombstone altered after bob signed it: the message it
\* targets is stored, not revoked, and no tombstone event was emitted
C11_Witness ==
    \E e \in log["alice"] :
        /\ e.op = "handleDecodedMessage"
        /\ ~ValidlySigned(e.envelope)
        /\ CryptoInvalid("alice", e.conversationId,
                         [contentTopic |-> contentTopicFor(e.conversationId),
                          payload |-> jsonEncode(e.envelope)])
        /\ Has(messages["alice"], e.envelope.targetMessageId)
        /\ ~messages["alice"][e.envelope.targetMessageId].revoked
        /\ events["alice"].tombstone = EmptyMap
        /\ pendingTombstones["alice"] = EmptyMap

\* C13: whatever payload the transport hands to a callback a client has
\* registered, handleDecodedMessage completes without throwing.
C13_ReceiveNeverThrows ==
    \A c \in Clients, k \in Convs, m \in net :
        Deliverable(c, k, m) => ~handlePayload(Local(c), k, m.payload).threw

\* client c joined k as a group without a shared key
Keyless(c, k) ==
    /\ Joined(c, k)
    /\ conversations[c][k].type = "group"
    /\ conversations[c][k].sharedKeyBase64 = Absent

\* C16: sendMessage and revokeMessage on a conversation not joined throw
\* "Conversation not found", sendMessage on a group joined without a shared
\* key throws "No conversation key", revokeMessage on a joined conversation
\* for an id not in the store throws "Message not found"; and such a call
\* changes neither the messages, the pending tombstones, the events emitted,
\* nor the publish calls made and the payloads on the transport.
C16_PreconditionFailures ==
    /\ [](\A c \in Clients, k \in Convs :
              /\ ~Joined(c, k) =>
                     /\ sendMessageError(Local(c), k) = "Conversation not found"
                     /\ \A id \in KnownIds :
                            revokeMessageError(Local(c), k, id) = "Conversation not found"
              /\ Keyless(c, k) => sendMessageError(Local(c), k) = "No conversation key"
              /\ Joined(c, k) =>
                     \A id \in KnownIds \ DOMAIN messages[c] :
                         revokeMessageError(Local(c), k, id) = "Message not found")
    /\ [][\A c \in Clients, k \in Convs, ts \in Times :
              /\ \A t \in Texts[c] :
                     ((~Joined(c, k) \/ Keyless(c, k)) /\ sendMessageCall(c, k, t, ts)) =>
                         UNCHANGED <<messages, pendingTombstones, events, pubs, net>>
              /\ \A id \in KnownIds :
                     ((~Joined(c, k) \/ ~Has(messages[c], id))
                          /\ revokeMessageCall(c, k, id, ts)) =>
                         UNCHANGED <<messages, pendingTombstones, events, pubs, net>>]_vars
\* bob has joined the group without a key and not the direct conversation,
\* and alice has joined the group and does not store a message bob has sent
C16_Witness ==
    /\ Keyless("bob", "g")
    /\ ~Joined("bob", "d")
    /\ Joined("alice", "g")
    /\ \E id \in KnownIds : ~Has(messages["alice"], id)
    /\ waku["alice"] /\ waku["bob"]
    /\ Total(ncalls) < MaxCalls

\* the identity id that belongs to the key the envelope's signature was
\* verified with, as createIdentity derives an id from a signing key
SignerId(envelope) == toBase64(fromBase64(envelope.senderEd25519))
\* the envelope was accepted under the identity that signed it
SenderBound(envelope) ==
    ValidlySigned(envelope) /\ envelope.senderId = SignerId(envelope)

\* C18: a message a client stores from another sender came from a chat
\* envelope on the transport whose senderId is the id of the key that signed
\* it, and a tombstone a client applied or buffered for a target came from
\* its own revokeMessage or from a tombstone envelope it handled whose
\* senderId is the id of the key that signed it.
C18_SenderBoundToKey ==
    \A c \in Clients :
        /\ \A id \in DOMAIN messages[c] :
               messages[c][id].senderId # Id(c) =>
                   \E m \in net :
                       /\ parses(m.payload)
                       /\ jsonParse(m.payload).type = "chat"
                       /\ jsonParse(m.payload).messageId = id
                       /\ jsonParse(m.payload).senderId = messages[c][id].senderId
                       /\ SenderBound(jsonParse(m.payload))
        /\ \A id \in DOMAIN events[c].tombstone :
               \E e \in log[c] :
                   /\ e.envelope.targetMessageId = id
                   /\ SenderBound(e.envelope)

\* the chat envelopes published by a client's sendMessage or put on the
\* transport by anyone
ChatEnvelopes ==
    {p.envelope : p \in {q \in pubs : q.op = "sendMessage"}}
        \cup {jsonParse(m.payload) :
                  m \in {x \in net : parses(x.payload) /\ jsonParse(x.payload).type = "chat"}}

\* C19: every stored message has the id of a chat envelope it came from,
\* and that id is computeMessageId of the envelope's conversationId,
\* senderId, nonce, ciphertext and timestamp.
C19_StoredIdComputed ==
    \A c \in Clients : \A id \in DOMAIN messages[c] :
        \E envelope \in ChatEnvelopes :
            /\ envelope.messageId = id
            /\ envelope.senderId = messages[c][id].senderId
            /\ id = computeMessageId(envelope.conversationId, envelope.senderId,
                                     envelope.nonce, envelope.ciphertext,
                                     envelope.timestamp)

\* publish call q is the call p, at this or a later time
SameCall(p, q) ==
    q.client = p.client /\ q.conversationId = p.conversationId /\ q.n = p.n

\* C21: once the withTimeout of a publish call has settled, its timer is not
\* armed: it was cleared if the send promise settled first, and it fired
\* only if it settled the call itself; and after the call has settled, its
\* timer, outcome and what settled it never change again.
C21_NoLeakedTimer ==
    /\ [](\A p \in pubs :
              /\ p.outcome # "pending" => p.timer # "armed"
              /\ p.report.settled \in {"resolved", "rejected"} => p.timer = "cleared"
              /\ p.timer = "fired" => (p.report = TimerReport /\ p.outcome = "Timeout"))
    /\ [][\A p \in pubs :
              p.outcome # "pending" =>
                  \E q \in pubs' :
                      /\ SameCall(p, q)
                      /\ q.timer = p.timer
                      /\ q.outcome = p.outcome
                      /\ q.report = p.report]_vars
\* one call was settled by its timer, and its send promise settled later;
\* another was settled by its send promise rejecting
C21_Witness ==
    /\ \E p \in pubs : p.timer = "fired" /\ ~p.inflight
    /\ \E p \in pubs : p.timer = "cleared" /\ p.outcome = "send error"

\* C22: while a conversation is in a client's subscribed set, a step that is
\* not leaveConversation for it keeps it there, and no step, subscribe and
\* waitForSubscription included, starts a transport subscribe for it.
C22_SubscribedTerminal ==
    [][\A c \in Clients, k \in Convs :
           k \in subscribed[c] =>
               /\ k \in subscribed'[c] \/ leaveConversation(c, k)
               /\ InFlight(c, k)' \subseteq InFlight(c, k)
               /\ nattempts'[c][k] = nattempts[c][k]
               /\ (subscribe(c, k) \/ waitForSubscription(c, k)) =>
                      UNCHANGED <<subscribed, subscriptionPromises, attempts, callbacks>>]_vars
\* alice is subscribed, listening, and another transport subscribe could
\* still be made
C22_Witness ==
    \E k \in Convs :
        /\ k \in subscribed["alice"]
        /\ k \in handlers["alice"]
        /\ InFlight("alice", k) = {}
        /\ Total(nattempts) < MaxAttempts

\* C23: handling a validly signed envelope whose type is neither "chat" nor
\* "tombstone", a chat without nonce or ciphertext, or a tombstone without
\* targetMessageId leaves the client's messages, pending tombstones and
\* events as they were.
C23_RoutingByTag ==
    \A c \in Clients, k \in Convs, m \in net :
        (/\ Deliverable(c, k, m)
         /\ parses(m.payload)
         /\ ValidlySigned(jsonParse(m.payload))
         /\ \/ jsonParse(m.payload).type \notin {"chat", "tombstone"}
            \/ /\ jsonParse(m.payload).type = "chat"
               /\ Absent \in {jsonParse(m.payload).nonce, jsonParse(m.payload).ciphertext}
            \/ /\ jsonParse(m.payload).type = "tombstone"
               /\ jsonParse(m.payload).targetMessageId = Absent) =>
            LET after == handlePayload(Local(c), k, m.payload).st
            IN  /\ after.messages = messages[c]
                /\ after.pendingTombstones = pendingTombstones[c]
                /\ after.events = events[c]

\* the entry of subscriptionPromises is no longer the one attempt a set:
\* leaveConversation deleted it, and a later attempt may have set its own
Superseded(a) == subscriptionPromises[a.client][a.conversationId] # a.n

\* C24: the completion of a transport subscribe whose entry leaveConversation
\* has deleted does not put the conversation into the subscribed set.
C24_LeaveNotUndone ==
    [][\A a \in attempts :
           (Superseded(a) /\ subscribeSucceeds(a)) =>
               subscribed'[a.client] = subscribed[a.client]]_vars

\* C25: the failure of a transport subscribe whose entry leaveConversation
\* has deleted leaves subscriptionPromises alone: it does not remove the
\* entry a later attempt for the conversation has set.
C25_FailureClearsOwnEntry ==
    [][\A a \in attempts :
           (Superseded(a) /\ subscribeFails(a)) =>
               subscriptionPromises'[a.client][a.conversationId] =
                   subscriptionPromises[a.client][a.conversationId]]_vars

\* C26: the transport holds at most one callback of a client for a
\* conversation's topic.
C26_OneCallback ==
    \A c \in Clients, k \in Convs : callbacks[c][k] <= 1

\* C27: leaveConversation leaves the client without the conversation's
\* config and without handlers for it; and while a client has no config for
\* a conversation, handling a payload delivered on its topic leaves the
\* client's messages, pending tombstones and events as they were, so that
\* no handler is called.
C27_LeavingStopsEffects ==
    /\ [][\A c \in Clients, k \in Convs :
              /\ leaveConversation(c, k) => (~Joined(c, k)' /\ k \notin handlers'[c])
              /\ \A m \in net :
                     (~Joined(c, k) /\ deliver(c, k, m)) =>
                         UNCHANGED <<messages, pendingTombstones, events>>]_vars
    /\ [](\A c \in Clients, k \in Convs, m \in net :
              (~Joined(c, k) /\ m.contentTopic = contentTopicFor(k)) =>
                  handlePayload(Local(c), k, m.payload).st = Local(c))
\* alice has left a conversation she holds a message of; the transport still
\* holds her callback, and a tombstone she has not applied is on the topic
C27_Witness ==
    \E k \in Convs :
        /\ nleaves = 1
        /\ ~Joined("alice", k)
        /\ callbacks["alice"][k] > 0
        /\ \E m \in TombstonesOn(k) :
               /\ Has(messages["alice"], jsonParse(m.payload).targetMessageId)
               /\ ~messages["alice"][jsonParse(m.payload).targetMessageId].revoked
               /\ \E e \in log["alice"] :
                      e.op = "handleDecodedMessage" /\ e.envelope = jsonParse(m.payload)

\* C28: after a transport subscribe for a conversation has failed, the
\* conversation is not in the subscribed set and the next subscribe or
\* waitForSubscription for it starts a transport subscribe.
C28_FailedSubscribeRetryable ==
    [][\A a \in attempts :
           subscribeFails(a) =>
               /\ a.conversationId \notin subscribed'[a.client]
               /\ startsSubscribe(a.client, a.conversationId)']_vars

====
